---- MODULE Spec2Model ----
(***************************************************************************)
(* SOC monitoring schedule: rotation pattern, time windows, schedule       *)
(* generation, shift swaps and leave coverage (schedule_app/models.py,     *)
(* forms.py, views.py, admin.py).                                          *)
(*                                                                         *)
(* Dates are integers: the number of days since the pattern's              *)
(* reference_start_date, which create_initial_data.py sets to a Monday, so *)
(* weekday(d) = d mod 7 and day 0 is a Monday.  Instants are minutes since *)
(* midnight of day 0.  The database runs in Django's default autocommit    *)
(* mode: a statement that raises leaves the earlier statements of the same *)
(* call written unless the call opens transaction.atomic().                *)
(***************************************************************************)
EXTENDS Integers, Sequences, FiniteSets, TLC

VARIABLES
    today,           \* date.today()
    types,           \* codes of the MonitoringType rows present
    active,          \* analysts with is_active = True
    assignments,     \* MonitoringAssignment rows
    swaps,           \* ShiftSwapRequest rows, in creation order
    leaves,          \* LeaveRequest rows, in creation order
    last_generated,  \* ScheduleGenerator.last_generated (<<>> = null)
    last,            \* the last operation called and its outcome
    query,           \* the last rotation lookup and its result
    window,          \* the last time window computed and the row saved with it
    procs            \* the requests in progress: position, arguments, unwritten rows

vars == <<today, types, active, assignments, swaps, leaves, last_generated, last, query, window,
          procs>>

storeVars == <<today, types, active, assignments, swaps, leaves, last_generated, last, procs>>

NONE == "none"    \* a null foreign key

(***************************************************************************)
(* Bounds of the model.                                                    *)
(***************************************************************************)
MaxBack == 1        \* generation reaches this far before the reference date
MaxDay == 2         \* generation reaches this far after the reference date
LastDay == 1        \* swaps and leave work on the dates 0..LastDay
MaxSwaps == 2       \* swap requests ever created
MaxLeaves == 1      \* leave requests ever created
MaxStoreSwaps == 1  \* swap requests beside assignments made by hand
MaxRequests == 2    \* swap and leave requests together, when both are made
QueryBack == 8      \* rotation lookups reach this far before the reference date
QueryFwd == 370     \* rotation lookups reach this far after the reference date

Dates == (0 - MaxBack)..MaxDay

Days == 0..LastDay

QueryDates == (0 - QueryBack)..QueryFwd

MaxOffsetHours == 25  \* the Monday offsets of a monitoring type reach this far
MaxWindowDay == 7     \* time windows are computed for the dates 0..MaxWindowDay

WindowDates == 0..MaxWindowDay

OffsetHours == 0..MaxOffsetHours

MaxWriters == 2       \* requests in progress at the same time
MaxRaceLeaves == 2    \* leave requests ever created by requests in progress together
MaxRaceRequests == 1  \* swap and leave requests beside generate runs in progress

Writers == 1..MaxWriters

(***************************************************************************)
(* Analyst: the four team members of create_initial_data.py with their     *)
(* pattern positions.                                                      *)
(***************************************************************************)
Analysts == {"Ebisa", "Gezagn", "Natnael", "Nurahmed"}

pattern_position ==
    [a \in Analysts |->
        CASE a = "Ebisa" -> 0 [] a = "Gezagn" -> 1 [] a = "Natnael" -> 2 [] a = "Nurahmed" -> 3]

Codes == {"EM", "DM"}

(***************************************************************************)
(* SchedulePattern.                                                        *)
(***************************************************************************)
RotationSlots == 4

DmOffset == 3

PatternDays == 365

InitialPatternDays == 150

\* generate_pattern_sequence(days): the lists are 0-indexed in the code,
\* entry i of the code is entry i + 1 here.
generate_pattern_sequence_mut(days) ==
    [em_pattern |-> [i \in 1..days |-> (i - 1) % RotationSlots],
     dm_pattern |-> [i \in 1..days |-> (((i - 1) % RotationSlots) + DmOffset + 1) % RotationSlots]]

generate_pattern_sequence(days) ==
    [em_pattern |-> [i \in 1..days |-> (i - 1) % RotationSlots],
     dm_pattern |-> [i \in 1..days |-> (((i - 1) % RotationSlots) + DmOffset) % RotationSlots]]

\* A pattern object as the code can hold it: saved with empty lists (save()
\* fills both with 365 entries), created by create_initial_data.py with 150
\* entries, or not saved yet with both lists empty.
SavedPattern == generate_pattern_sequence(PatternDays)

InitialDataPattern == generate_pattern_sequence(InitialPatternDays)

UnsavedPattern == [em_pattern |-> <<>>, dm_pattern |-> <<>>]

PatternOf(len) ==
    IF len = 0 THEN UnsavedPattern
    ELSE IF len = InitialPatternDays THEN InitialDataPattern
    ELSE SavedPattern

PatternLengths == {0, InitialPatternDays, PatternDays}

abs(x) == IF x < 0 THEN 0 - x ELSE x

\* get_assignments_for_date(target_date), days_diff = target_date - reference.
\* Python's -days_diff % pattern_length is (-days_diff) % pattern_length, a
\* value in 0..pattern_length-1.
get_assignments_for_date_mut(pattern, target_date) ==
    LET days_diff == target_date
        stored == Len(pattern.em_pattern) > 0
    IN  IF days_diff < 0
        THEN LET back == abs(days_diff)
                 pattern_length == IF stored THEN Len(pattern.em_pattern) ELSE RotationSlots
                 idx == (0 - back) % pattern_length
                 em_index == IF stored THEN pattern.em_pattern[idx + 1]
                             ELSE back % RotationSlots
                 dm_index == IF Len(pattern.dm_pattern) > 0 THEN pattern.dm_pattern[idx + 1]
                             ELSE (em_index + DmOffset) % RotationSlots
             IN  [em |-> em_index, dm |-> dm_index]
        ELSE IF stored /\ Len(pattern.em_pattern) > days_diff
             THEN [em |-> pattern.em_pattern[days_diff + 1],
                   dm |-> pattern.dm_pattern[days_diff + 1]]
             ELSE [em |-> (days_diff - Len(pattern.em_pattern)) % RotationSlots,
                   dm |-> (((days_diff - Len(pattern.em_pattern)) % RotationSlots) + DmOffset)
                              % RotationSlots]

get_assignments_for_date(pattern, target_date) ==
    LET days_diff == target_date
        stored == Len(pattern.em_pattern) > 0
    IN  IF days_diff < 0
        THEN LET back == abs(days_diff)
                 pattern_length == IF stored THEN Len(pattern.em_pattern) ELSE RotationSlots
                 idx == (0 - back) % pattern_length
                 em_index == IF stored THEN pattern.em_pattern[idx + 1]
                             ELSE back % RotationSlots
                 dm_index == IF Len(pattern.dm_pattern) > 0 THEN pattern.dm_pattern[idx + 1]
                             ELSE (em_index + DmOffset) % RotationSlots
             IN  [em |-> em_index, dm |-> dm_index]
        ELSE IF stored /\ Len(pattern.em_pattern) > days_diff
             THEN [em |-> pattern.em_pattern[days_diff + 1],
                   dm |-> pattern.dm_pattern[days_diff + 1]]
             ELSE [em |-> days_diff % RotationSlots,
                   dm |-> ((days_diff % RotationSlots) + DmOffset) % RotationSlots]

(***************************************************************************)
(* MonitoringType: the two rows of create_initial_data.py.                 *)
(***************************************************************************)
HoursPerDay == 24

MinutesPerHour == 60

DaysPerWeek == 7

MonitoringTypes ==
    [EM |-> [code |-> "EM", default_start_hour |-> 17, default_start_minute |-> 0,
             default_end_hour |-> 7, default_end_minute |-> 0,
             monday_start_offset_hours |-> 58, monday_end_offset_hours |-> 0],
     DM |-> [code |-> "DM", default_start_hour |-> 17, default_start_minute |-> 0,
             default_end_hour |-> 17, default_end_minute |-> 0,
             monday_start_offset_hours |-> 48, monday_end_offset_hours |-> 0]]

weekday(d) == d % DaysPerWeek

\* datetime.time(hour, minute) raises ValueError outside 0..23 and 0..59.
time_ok(hour, minute) == hour \in 0..(HoursPerDay - 1) /\ minute \in 0..(MinutesPerHour - 1)

\* datetime.combine(date, time(hour, minute)), in minutes since day 0, 00:00.
combine(d, hour, minute) == (d * HoursPerDay + hour) * MinutesPerHour + minute

\* MonitoringType.get_time_window_for_date(target_date); ok = FALSE when
\* time() raises ValueError.
get_time_window_for_date_mut(mt, target_date) ==
    LET is_monday == weekday(target_date) = 0
        ext_start == is_monday /\ mt.monday_start_offset_hours > 0
        raw_hour == mt.default_start_hour - (mt.monday_start_offset_hours % HoursPerDay)
        start_hour == IF ext_start
                      THEN (IF raw_hour < 0 THEN raw_hour + HoursPerDay ELSE raw_hour)
                      ELSE mt.default_start_hour
        start_date == IF ext_start
                      THEN target_date - (mt.monday_start_offset_hours \div HoursPerDay)
                      ELSE target_date - 1
        ext_end == is_monday /\ mt.monday_end_offset_hours > 0
        sum_hour == mt.default_end_hour + mt.monday_end_offset_hours
        end_hour == IF ext_end
                    THEN (IF sum_hour >= HoursPerDay THEN sum_hour - HoursPerDay ELSE sum_hour)
                    ELSE mt.default_end_hour
        end_date == IF ext_end /\ sum_hour >= HoursPerDay THEN target_date + 1 ELSE target_date
    IN  [ok |-> time_ok(start_hour, mt.default_start_minute)
                /\ time_ok(end_hour, mt.default_end_minute),
         start |-> combine(start_date, start_hour, mt.default_start_minute),
         end |-> combine(end_date, end_hour, mt.default_end_minute)]

get_time_window_for_date_day_mut(mt, target_date) ==
    LET is_monday == weekday(target_date) = 0
        ext_start == is_monday /\ mt.monday_start_offset_hours > 0
        raw_hour == mt.default_start_hour - (mt.monday_start_offset_hours % HoursPerDay)
        start_hour == IF ext_start
                      THEN (IF raw_hour < 0 THEN raw_hour + HoursPerDay ELSE raw_hour)
                      ELSE mt.default_start_hour
        start_date == IF ext_start
                      THEN target_date - (mt.monday_start_offset_hours \div HoursPerDay)
                           - (IF raw_hour < 0 THEN 1 ELSE 0)
                      ELSE target_date
        ext_end == is_monday /\ mt.monday_end_offset_hours > 0
        sum_hour == mt.default_end_hour + mt.monday_end_offset_hours
        end_hour == IF ext_end
                    THEN (IF sum_hour >= HoursPerDay THEN sum_hour - HoursPerDay ELSE sum_hour)
                    ELSE mt.default_end_hour
        end_date == IF ext_end /\ sum_hour >= HoursPerDay THEN target_date + 1 ELSE target_date
    IN  [ok |-> time_ok(start_hour, mt.default_start_minute)
                /\ time_ok(end_hour, mt.default_end_minute),
         start |-> combine(start_date, start_hour, mt.default_start_minute),
         end |-> combine(end_date, end_hour, mt.default_end_minute)]

get_time_window_for_date(mt, target_date) ==
    LET is_monday == weekday(target_date) = 0
        ext_start == is_monday /\ mt.monday_start_offset_hours > 0
        raw_hour == mt.default_start_hour - (mt.monday_start_offset_hours % HoursPerDay)
        start_hour == IF ext_start
                      THEN (IF raw_hour < 0 THEN raw_hour + HoursPerDay ELSE raw_hour)
                      ELSE mt.default_start_hour
        start_date == IF ext_start
                      THEN target_date - (mt.monday_start_offset_hours \div HoursPerDay)
                           - (IF raw_hour < 0 THEN 1 ELSE 0)
                      ELSE target_date - 1
        ext_end == is_monday /\ mt.monday_end_offset_hours > 0
        sum_hour == mt.default_end_hour + mt.monday_end_offset_hours
        end_hour == IF ext_end
                    THEN (IF sum_hour >= HoursPerDay THEN sum_hour - HoursPerDay ELSE sum_hour)
                    ELSE mt.default_end_hour
        end_date == IF ext_end /\ sum_hour >= HoursPerDay THEN target_date + 1 ELSE target_date
    IN  [ok |-> time_ok(start_hour, mt.default_start_minute)
                /\ time_ok(end_hour, mt.default_end_minute),
         start |-> combine(start_date, start_hour, mt.default_start_minute),
         end |-> combine(end_date, end_hour, mt.default_end_minute)]

(***************************************************************************)
(* MonitoringAssignment.  A row is identified by <<date, kind, seq>>, seq  *)
(* counting the rows of the same (date, kind) that existed when it was     *)
(* inserted (the primary key is opaque in the code).                       *)
(***************************************************************************)
EmExtendedHours == 14

DmExtendedHours == 24

Id(a) == <<a.date, a.kind, a.seq>>

Row(store, id) == CHOOSE a \in store : Id(a) = id

\* round(delta.total_seconds() / 3600, 2), in hundredths of an hour.
duration_hours(window_start, window_end) ==
    ((window_end - window_start) * 10 + 3) \div 6

\* MonitoringAssignment.save(): the derived fields.
save(a) ==
    LET dur == duration_hours(a.window_start, a.window_end)
        monday == weekday(a.date) = 0
        ext == IF monday /\ a.kind = "EM" /\ dur > EmExtendedHours * 100 THEN TRUE
               ELSE IF monday /\ a.kind = "DM" /\ dur > DmExtendedHours * 100 THEN TRUE
               ELSE a.is_extended_window
    IN  [a EXCEPT !.duration_hours = dur, !.is_monday_assignment = monday,
                  !.is_extended_window = ext]

NewAssignment(d, kind, analyst, ws, we, status) ==
    [date |-> d, kind |-> kind, seq |-> 0, analyst |-> analyst,
     window_start |-> ws, window_end |-> we, status |-> status,
     duration_hours |-> 0, is_monday_assignment |-> FALSE, is_extended_window |-> FALSE]

SameKey(store, a) == {b \in store : b.date = a.date /\ b.kind = a.kind}

\* Meta.unique_together = ['date', 'monitoring_type'].
unique_together_mut(store, a) == TRUE

unique_together(store, a) == SameKey(store, a) = {}

\* MonitoringAssignment.objects.create(...): save() and INSERT; the INSERT
\* raises IntegrityError (ok = FALSE) on a (date, monitoring_type) present.
create(store, a) ==
    IF unique_together(store, a)
    THEN [ok |-> TRUE,
          store |-> store \cup {[save(a) EXCEPT !.seq = Cardinality(SameKey(store, a))]}]
    ELSE [ok |-> FALSE, store |-> store]

\* assignment.save() of a row already in the table: UPDATE.
update(store, a) == {b \in store : Id(b) # Id(a)} \cup {save(a)}

\* Analyst.objects.filter(pattern_position=index, is_active=True).first(),
\* Meta.ordering = ['pattern_position', 'display_name']; <<>> when none.
analyst_for(index) ==
    LET found == {a \in active : pattern_position[a] = index}
    IN  IF found = {} THEN <<>> ELSE <<CHOOSE a \in found : TRUE>>

(***************************************************************************)
(* ScheduleGenerator.generate_schedule.  The generator of                  *)
(* create_initial_data.py uses the 150-entry pattern.                      *)
(***************************************************************************)
GeneratorPattern == InitialDataPattern

\* MonitoringAssignment.objects.filter(date=current_date).exists()
existing_assignments_mut(store, current_date) ==
    \E a \in store : a.date = current_date /\ a.status = "SCHEDULED"

existing_assignments_kind_mut(store, current_date) ==
    \E a \in store : a.date = current_date /\ a.kind = "EM"

existing_assignments(store, current_date) == \E a \in store : a.date = current_date

RECURSIVE generate_loop(_, _, _, _)
generate_loop(store, current_date, end_date, assignments_created) ==
    IF current_date > end_date
    THEN [ok |-> TRUE, store |-> store, n |-> assignments_created, err |-> "ok"]
    ELSE IF existing_assignments(store, current_date)
    THEN generate_loop(store, current_date + 1, end_date, assignments_created)
    ELSE
      LET idx == get_assignments_for_date(GeneratorPattern, current_date)
          em_analyst == analyst_for(idx.em)
          dm_analyst == analyst_for(idx.dm)
          em_w == get_time_window_for_date(MonitoringTypes.EM, current_date)
          dm_w == get_time_window_for_date(MonitoringTypes.DM, current_date)
          failed == [ok |-> FALSE, store |-> store, n |-> assignments_created,
                     err |-> "ValueError"]
      IN  IF em_analyst = <<>> \/ dm_analyst = <<>> THEN failed
          ELSE IF "EM" \notin types \/ "DM" \notin types THEN failed
          ELSE IF ~em_w.ok THEN failed
          ELSE IF ~dm_w.ok THEN failed
          ELSE
            LET c1 == create(store, NewAssignment(current_date, "EM", em_analyst[1],
                                                  em_w.start, em_w.end, "CONFIRMED"))
                c2 == create(c1.store, NewAssignment(current_date, "DM", dm_analyst[1],
                                                     dm_w.start, dm_w.end, "CONFIRMED"))
            IN  IF ~c1.ok THEN [failed EXCEPT !.err = "IntegrityError"]
                ELSE IF ~c2.ok
                THEN [ok |-> FALSE, store |-> c1.store, n |-> assignments_created + 1,
                      err |-> "IntegrityError"]
                ELSE generate_loop(c2.store, current_date + 1, end_date,
                                   assignments_created + 2)

\* with transaction.atomic(): the writes of a block that raises are undone.
transaction_atomic_mut(before, run) == run.store

transaction_atomic(before, run) == IF run.ok THEN run.store ELSE before

Generate(start_date, end_date) ==
    LET run == generate_loop(assignments, start_date, end_date, 0)
    IN  /\ assignments' = transaction_atomic(assignments, run)
        /\ last_generated' = IF run.ok THEN <<today>> ELSE last_generated
        /\ last' = [op |-> "generate", res |-> run.err,
                    n |-> IF run.ok THEN run.n ELSE 0,
                    from |-> start_date, to |-> end_date, kind |-> NONE, req |-> 0]
        /\ UNCHANGED <<today, types, active, swaps, leaves, query, window, procs>>

(***************************************************************************)
(* The store starts empty, with both monitoring types and the four         *)
(* analysts active.                                                        *)
(***************************************************************************)
NoCall == [op |-> "none", res |-> "none", n |-> 0, from |-> 0, to |-> 0, kind |-> NONE,
           req |-> 0]

NoQuery == [len |-> 0, date |-> 0, em |-> 0, dm |-> 3, asked |-> FALSE]

NoWindow == [mt |-> MonitoringTypes.EM, date |-> 0, ok |-> FALSE, start |-> 0, end |-> 0,
             duration_hours |-> 0, is_monday_assignment |-> FALSE,
             is_extended_window |-> FALSE, asked |-> FALSE]

\* A request that has not been received yet.
Idle == [op |-> "none", pc |-> "idle", cur |-> 0, to |-> 0, rows |-> {}, n |-> 0,
         res |-> "none", arg |-> <<>>]

StoreInitOther ==
    /\ today = 0
    /\ procs = [p \in Writers |-> Idle]
    /\ assignments = {}
    /\ swaps = <<>>
    /\ leaves = <<>>
    /\ last_generated = <<>>
    /\ last = NoCall
    /\ window = NoWindow

StoreInit == StoreInitOther /\ types = Codes /\ active = Analysts

(***************************************************************************)
(* CreateAssignmentView with MonitoringAssignmentForm: an administrator    *)
(* adds one assignment by hand.                                            *)
(***************************************************************************)
\* MonitoringAssignmentForm.clean().
assignment_form_clean(store, d, kind, analyst) ==
    IF \E b \in store : b.date = d /\ b.kind = kind THEN "Conflict"
    ELSE IF \E b \in store : b.date = d /\ b.analyst = analyst THEN "AlreadyAssigned"
    ELSE "ok"

CreateAssignment(d, kind, analyst) ==
    LET checked == assignment_form_clean(assignments, d, kind, analyst)
        w == get_time_window_for_date(MonitoringTypes[kind], d)
        made == create(assignments, NewAssignment(d, kind, analyst, w.start, w.end,
                                                  "SCHEDULED"))
        res == IF checked # "ok" THEN checked
               ELSE IF ~w.ok THEN "ValueError"
               ELSE IF ~made.ok THEN "IntegrityError"
               ELSE "ok"
    IN  /\ kind \in types
        /\ analyst \in active
        /\ assignments' = IF res = "ok" THEN made.store ELSE assignments
        /\ last' = [op |-> "createAssignment", res |-> res, n |-> 0,
                    from |-> d, to |-> d, kind |-> kind, req |-> 0]
        /\ UNCHANGED <<today, types, active, swaps, leaves, last_generated, query, window, procs>>

\* MonitoringAssignmentForm.clean() of the update form: the row that is
\* edited is excluded from both tests.
assignment_update_clean(store, a, d, kind, analyst) ==
    assignment_form_clean(store \ {a}, d, kind, analyst)

\* UpdateAssignmentView: an administrator changes the date, the type or the
\* analyst of a row; the window is taken again from the type and the row
\* saved, with its status and its flags as they were before save().
UpdateAssignment(id, d, kind, analyst) ==
    LET a == Row(assignments, id)
        checked == assignment_update_clean(assignments, a, d, kind, analyst)
        w == get_time_window_for_date(MonitoringTypes[kind], d)
        res == IF checked # "ok" THEN checked
               ELSE IF ~w.ok THEN "ValueError"
               ELSE "ok"
        edited == [a EXCEPT !.date = d, !.kind = kind, !.analyst = analyst,
                            !.window_start = w.start, !.window_end = w.end,
                            !.seq = Cardinality(SameKey(assignments \ {a},
                                                        [date |-> d, kind |-> kind]))]
    IN  /\ kind \in types
        /\ analyst \in active
        /\ assignments' = IF res = "ok" THEN (assignments \ {a}) \cup {save(edited)}
                          ELSE assignments
        /\ last' = [op |-> "updateAssignment", res |-> res, n |-> 0,
                    from |-> d, to |-> d, kind |-> kind, req |-> 0]
        /\ UNCHANGED <<today, types, active, swaps, leaves, last_generated, query, window, procs>>

(***************************************************************************)
(* ShiftSwapRequest.  Requests are made through SwapRequestCreateView      *)
(* (dispatch, ShiftSwapRequestForm, ShiftSwapRequest.clean) and answered   *)
(* through approve_swap_request and reject_swap_request.                   *)
(***************************************************************************)
Ids(store) == {Id(a) : a \in store}

OnDate(store, d) == {a \in store : a.date = d}

PendingFor(id) == {i \in 1..Len(swaps) : swaps[i].original_assignment = id
                                          /\ swaps[i].status = "PENDING"}

\* ShiftSwapRequest.clean() of a request for assignment row a and the
\* requested analyst.
ShiftSwapRequest_clean_mut(a, target) ==
    IF a.date < today THEN "PastDate"
    ELSE IF a.kind = "EM"
            /\ \E b \in OnDate(assignments, a.date) : b.kind = "DM" /\ b.analyst = target
    THEN "PatternConflict"
    ELSE "ok"

ShiftSwapRequest_clean(a, target) ==
    IF a.date < today THEN "PastDate"
    ELSE IF \E b \in OnDate(assignments, a.date) : b.analyst = target THEN "AlreadyAssigned"
    ELSE IF a.kind = "EM"
            /\ \E b \in OnDate(assignments, a.date) : b.kind = "DM" /\ b.analyst = target
    THEN "PatternConflict"
    ELSE "ok"

\* The outcome of validating a request for assignment row a and target
\* analyst: the view's dispatch, the form's field choices and clean(), then
\* the model's clean().
swap_validation(a, target) ==
    IF a.date < today THEN "PastDate"
    ELSE IF target \notin active
            \/ target \in {b.analyst : b \in OnDate(assignments, a.date)}
            \/ target = a.analyst
    THEN "InvalidChoice"
    ELSE IF PendingFor(Id(a)) # {} THEN "DuplicatePending"
    ELSE ShiftSwapRequest_clean(a, target)

RequestSwap(id, target) ==
    LET a == Row(assignments, id)
        res == swap_validation(a, target)
    IN  /\ swaps' = IF res = "ok"
                    THEN Append(swaps, [original_assignment |-> id,
                                        requested_analyst |-> target,
                                        requested_by |-> a.analyst,
                                        status |-> "PENDING",
                                        reciprocal_assignment |-> <<>>,
                                        approved_by |-> NONE,
                                        responded |-> FALSE])
                    ELSE swaps
        /\ last' = [op |-> "requestSwap", res |-> res, n |-> 0, from |-> 0, to |-> 0, kind |-> NONE,
                    req |-> IF res = "ok" THEN Len(swaps) + 1 ELSE 0]
        /\ UNCHANGED <<today, types, active, assignments, leaves, last_generated, query, window, procs>>

\* ShiftSwapRequest.approve_swap(approved_by_analyst), after the PENDING
\* test: the statements in order, none inside a transaction.
approve_swap(store, req, approved_by_analyst) ==
    LET orig == Row(store, req.original_assignment)
        made == create(store, NewAssignment(orig.date, orig.kind, req.requested_analyst,
                                            orig.window_start, orig.window_end, "CONFIRMED"))
        reciprocal == CHOOSE r \in made.store \ store : TRUE
    IN  IF ~made.ok
        THEN [ok |-> FALSE, store |-> store, req |-> req]
        ELSE [ok |-> TRUE,
              store |-> update(made.store, [orig EXCEPT !.analyst = req.requested_analyst]),
              req |-> [req EXCEPT !.reciprocal_assignment = Id(reciprocal),
                                  !.approved_by = approved_by_analyst,
                                  !.status = "APPROVED",
                                  !.responded = TRUE]]

\* self.status != 'PENDING' (approve_swap) and swap_request.status !=
\* 'PENDING' (the views), negated.
is_pending_mut(req) == req.status # "APPROVED"

is_pending(req) == req.status = "PENDING"

\* approve_swap_request(request, pk): the caller must be the requested
\* analyst and the request PENDING; an exception of approve_swap is caught
\* and reported.
ApproveSwap(i, analyst) ==
    LET req == swaps[i]
        run == approve_swap(assignments, req, analyst)
        res == IF analyst # req.requested_analyst THEN "Forbidden"
               ELSE IF ~is_pending(req) THEN "NotPending"
               ELSE IF run.ok THEN "ok" ELSE "IntegrityError"
    IN  /\ assignments' = IF res = "ok" THEN run.store ELSE assignments
        /\ swaps' = IF res = "ok" THEN [swaps EXCEPT ![i] = run.req] ELSE swaps
        /\ last' = [op |-> "approveSwap", res |-> res, n |-> i, from |-> 0, to |-> 0, kind |-> NONE,
                    req |-> i]
        /\ UNCHANGED <<today, types, active, leaves, last_generated, query, window, procs>>

\* reject_swap_request(request, pk).
RejectSwap(i, analyst) ==
    LET req == swaps[i]
        res == IF analyst # req.requested_analyst THEN "Forbidden"
               ELSE IF ~is_pending(req) THEN "NotPending"
               ELSE "ok"
    IN  /\ swaps' = IF res = "ok"
                    THEN [swaps EXCEPT ![i] = [req EXCEPT !.status = "REJECTED",
                                                          !.responded = TRUE]]
                    ELSE swaps
        /\ last' = [op |-> "rejectSwap", res |-> res, n |-> i, from |-> 0, to |-> 0, kind |-> NONE,
                    req |-> i]
        /\ UNCHANGED <<today, types, active, assignments, leaves, last_generated, query, window, procs>>

(***************************************************************************)
(* ShiftSwapRequestAdmin: the two bulk actions on a selection of requests. *)
(* The selection is walked in Meta.ordering = ['-requested_at'], the       *)
(* newest request first.                                                   *)
(***************************************************************************)
\* approve_selected_swaps: approve_swap on every PENDING request of the
\* selection, an exception of one request reported and the loop continued.
RECURSIVE approve_selected_swaps(_, _, _, _)
approve_selected_swaps(store, rows, selected, analyst) ==
    IF selected = {} THEN [store |-> store, rows |-> rows, approved |-> 0]
    ELSE
      LET i == CHOOSE x \in selected : \A y \in selected : y <= x
          run == approve_swap(store, rows[i], analyst)
          done == is_pending(rows[i]) /\ run.ok
          rest == approve_selected_swaps(IF done THEN run.store ELSE store,
                                         IF done THEN [rows EXCEPT ![i] = run.req] ELSE rows,
                                         selected \ {i}, analyst)
      IN  [rest EXCEPT !.approved = @ + (IF done THEN 1 ELSE 0)]

\* The names of django.utils that admin.py imports: format_html only.
admin_imports == {"format_html"}

\* reject_selected_swaps: queryset.update(status='REJECTED',
\* responded_at=timezone.now()) on the whole selection, whatever the status
\* of its requests.  The arguments are evaluated before update() is called,
\* and admin.py does not import timezone: the call raises NameError and
\* update() is never reached.
reject_selected_swaps_mut(rows, selected) ==
    [ok |-> TRUE,
     rows |-> [i \in 1..Len(rows) |->
                  IF i \in selected
                  THEN [rows[i] EXCEPT !.status = "REJECTED", !.responded = TRUE]
                  ELSE rows[i]]]

reject_selected_swaps(rows, selected) ==
    IF "timezone" \notin admin_imports
    THEN [ok |-> FALSE, rows |-> rows]
    ELSE [ok |-> TRUE,
          rows |-> [i \in 1..Len(rows) |->
                       IF i \in selected
                       THEN [rows[i] EXCEPT !.status = "REJECTED", !.responded = TRUE]
                       ELSE rows[i]]]

SwapStatuses == {"PENDING", "APPROVED", "REJECTED", "CANCELLED", "EXPIRED"}

\* The add form of ShiftSwapRequestAdmin: every field of the row is entered
\* by hand, the status among them, and validated by ShiftSwapRequest.clean().
AdminAddSwap(id, target, status) ==
    LET a == Row(assignments, id)
        res == ShiftSwapRequest_clean(a, target)
    IN  /\ swaps' = IF res = "ok"
                    THEN Append(swaps, [original_assignment |-> id,
                                        requested_analyst |-> target,
                                        requested_by |-> a.analyst,
                                        status |-> status,
                                        reciprocal_assignment |-> <<>>,
                                        approved_by |-> NONE,
                                        responded |-> FALSE])
                    ELSE swaps
        /\ last' = [op |-> "adminAddSwap", res |-> res, n |-> 0, from |-> 0, to |-> 0,
                    kind |-> NONE, req |-> IF res = "ok" THEN Len(swaps) + 1 ELSE 0]
        /\ UNCHANGED <<today, types, active, assignments, leaves, last_generated, query, window, procs>>

AdminApproveSelected(selected, analyst) ==
    LET run == approve_selected_swaps(assignments, swaps, selected, analyst)
    IN  /\ assignments' = run.store
        /\ swaps' = run.rows
        /\ last' = [op |-> "adminApproveSwaps", res |-> "ok", n |-> run.approved,
                    from |-> 0, to |-> 0, kind |-> NONE, req |-> 0]
        /\ UNCHANGED <<today, types, active, leaves, last_generated, query, window, procs>>

AdminRejectSelected(selected) ==
    LET run == reject_selected_swaps(swaps, selected)
    IN  /\ swaps' = run.rows
        /\ last' = [op |-> "adminRejectSwaps", res |-> IF run.ok THEN "ok" ELSE "NameError",
                    n |-> IF run.ok THEN Cardinality(selected) ELSE 0,
                    from |-> 0, to |-> 0, kind |-> NONE, req |-> 0]
        /\ UNCHANGED <<today, types, active, assignments, leaves, last_generated, query, window, procs>>

(***************************************************************************)
(* LeaveRequest.  Requests are made through LeaveRequestCreateView         *)
(* (LeaveRequestForm.clean, LeaveRequest.clean) and approved through       *)
(* approve_leave_request.                                                  *)
(***************************************************************************)
\* LeaveRequest.assess_impact(): the rows the affected set is replaced by.
assess_impact_mut(store, lv) ==
    {Id(a) : a \in {b \in store : /\ b.analyst = lv.analyst
                                  /\ b.date >= lv.start_date /\ b.date < lv.end_date
                                  /\ b.status \in {"SCHEDULED", "CONFIRMED"}}}

assess_impact(store, lv) ==
    {Id(a) : a \in {b \in store : /\ b.analyst = lv.analyst
                                  /\ b.date >= lv.start_date /\ b.date <= lv.end_date
                                  /\ b.status \in {"SCHEDULED", "CONFIRMED"}}}

\* LeaveRequestForm.clean() and LeaveRequest.clean().
leave_validation_mut(analyst, start_date, end_date) ==
    IF end_date < start_date THEN "InvalidRange"
    ELSE IF start_date <= today THEN "PastDate"
    ELSE IF \E i \in 1..Len(leaves) :
                /\ leaves[i].analyst = analyst
                /\ leaves[i].start_date <= end_date
                /\ leaves[i].end_date >= start_date
                /\ leaves[i].status \in {"PENDING", "APPROVED"}
    THEN "Overlap"
    ELSE "ok"

leave_validation(analyst, start_date, end_date) ==
    IF end_date < start_date THEN "InvalidRange"
    ELSE IF start_date < today THEN "PastDate"
    ELSE IF \E i \in 1..Len(leaves) :
                /\ leaves[i].analyst = analyst
                /\ leaves[i].start_date <= end_date
                /\ leaves[i].end_date >= start_date
                /\ leaves[i].status \in {"PENDING", "APPROVED"}
    THEN "Overlap"
    ELSE "ok"

RequestLeave(analyst, start_date, end_date, auto_adjust) ==
    LET res == leave_validation(analyst, start_date, end_date)
        lv == [analyst |-> analyst, start_date |-> start_date, end_date |-> end_date,
               status |-> "PENDING", covered_by |-> NONE, approved_by |-> NONE,
               auto_adjust_pattern |-> auto_adjust, affected_assignments |-> {}]
    IN  /\ leaves' = IF res = "ok"
                     THEN Append(leaves, [lv EXCEPT !.affected_assignments =
                                                        assess_impact(assignments, lv)])
                     ELSE leaves
        /\ last' = [op |-> "requestLeave", res |-> res,
                    n |-> IF res = "ok" THEN Cardinality(assess_impact(assignments, lv)) ELSE 0,
                    from |-> 0, to |-> 0, kind |-> NONE,
                    req |-> IF res = "ok" THEN Len(leaves) + 1 ELSE 0]
        /\ UNCHANGED <<today, types, active, assignments, swaps, last_generated, query, window, procs>>

\* Meta.ordering = ['date', 'monitoring_type__code'] of the affected rows.
KindRank(kind) == IF kind = "DM" THEN 0 ELSE 1

Before(x, y) ==
    \/ x[1] < y[1]
    \/ x[1] = y[1] /\ KindRank(x[2]) < KindRank(y[2])
    \/ x[1] = y[1] /\ x[2] = y[2] /\ x[3] < y[3]

FirstId(ids) == CHOOSE x \in ids : \A y \in ids \ {x} : Before(x, y)

\* LeaveRequest._arrange_coverage(): one covering row per affected row, the
\* original cancelled after it; the loop stops at the first create that raises.
RECURSIVE _arrange_coverage(_, _, _)
_arrange_coverage(store, todo, covered_by) ==
    IF todo = {} THEN [ok |-> TRUE, store |-> store]
    ELSE
      LET id == FirstId(todo)
          a == Row(store, id)
          made == create(store, [NewAssignment(a.date, a.kind, covered_by, a.window_start,
                                               a.window_end, "CONFIRMED")
                                    EXCEPT !.is_monday_assignment = a.is_monday_assignment,
                                           !.is_extended_window = a.is_extended_window])
      IN  IF ~made.ok THEN [ok |-> FALSE, store |-> store]
          ELSE _arrange_coverage(update(made.store, [a EXCEPT !.status = "CANCELLED"]),
                                 todo \ {id}, covered_by)

\* LeaveRequest.approve_leave(approved_by_analyst, coverage_analyst), after
\* the PENDING test: the request is saved APPROVED before the coverage is
\* arranged, and nothing is inside a transaction.
approve_leave(store, lv, approved_by_analyst, coverage_analyst) ==
    LET affected == assess_impact(store, lv)
        saved == [lv EXCEPT !.affected_assignments = affected,
                            !.covered_by = IF coverage_analyst # NONE THEN coverage_analyst
                                           ELSE lv.covered_by,
                            !.approved_by = approved_by_analyst,
                            !.status = "APPROVED"]
        cover == IF saved.auto_adjust_pattern /\ saved.covered_by # NONE
                 THEN _arrange_coverage(store, affected, saved.covered_by)
                 ELSE [ok |-> TRUE, store |-> store]
    IN  [ok |-> cover.ok, store |-> cover.store, lv |-> saved, n |-> Cardinality(affected)]

\* leave_request.status != 'PENDING' (the view) and self.status !=
\* 'PENDING' (approve_leave), negated.
leave_is_pending_mut(lv) == lv.status \in {"PENDING", "APPROVED"}

leave_is_pending(lv) == lv.status = "PENDING"

\* approve_leave_request(request, pk); coverage_analyst = NONE when the
\* request names none.
ApproveLeave(i, approver, coverage_analyst) ==
    LET lv == leaves[i]
        run == approve_leave(assignments, lv, approver, coverage_analyst)
        pending == leave_is_pending(lv)
    IN  /\ assignments' = IF pending THEN run.store ELSE assignments
        /\ leaves' = IF pending THEN [leaves EXCEPT ![i] = run.lv] ELSE leaves
        /\ last' = [op |-> "approveLeave",
                    res |-> IF ~pending THEN "NotPending"
                            ELSE IF run.ok THEN "ok" ELSE "IntegrityError",
                    n |-> IF pending /\ run.ok THEN run.n ELSE 0, from |-> 0, to |-> 0, kind |-> NONE,
                    req |-> i]
        /\ UNCHANGED <<today, types, active, swaps, last_generated, query, window, procs>>

\* LeaveRequestAdmin.approve_selected_leaves: approve_leave, with no coverage
\* analyst, on every PENDING request of the selection, newest first; an
\* exception of one request is reported and the loop continued.
RECURSIVE approve_selected_leaves(_, _, _, _)
approve_selected_leaves(store, rows, selected, analyst) ==
    IF selected = {} THEN [store |-> store, rows |-> rows, approved |-> 0]
    ELSE
      LET i == CHOOSE x \in selected : \A y \in selected : y <= x
          run == approve_leave(store, rows[i], analyst, NONE)
          pending == leave_is_pending(rows[i])
          rest == approve_selected_leaves(IF pending THEN run.store ELSE store,
                                          IF pending THEN [rows EXCEPT ![i] = run.lv] ELSE rows,
                                          selected \ {i}, analyst)
      IN  [rest EXCEPT !.approved = @ + (IF pending /\ run.ok THEN 1 ELSE 0)]

AdminApproveSelectedLeaves(selected, analyst) ==
    LET run == approve_selected_leaves(assignments, leaves, selected, analyst)
    IN  /\ assignments' = run.store
        /\ leaves' = run.rows
        /\ last' = [op |-> "adminApproveLeaves", res |-> "ok", n |-> run.approved,
                    from |-> 0, to |-> 0, kind |-> NONE, req |-> 0]
        /\ UNCHANGED <<today, types, active, swaps, last_generated, query, window, procs>>

\* The calendar day passes.
AdvanceDay ==
    /\ today < LastDay
    /\ today' = today + 1
    /\ UNCHANGED <<types, active, assignments, swaps, leaves, last_generated, last, query, window, procs>>

(***************************************************************************)
(* Rotation lookups on their own: any pattern object, any date.            *)
(***************************************************************************)
Lookup(d) ==
    LET r == get_assignments_for_date(PatternOf(query.len), d)
    IN  /\ query' = [len |-> query.len, date |-> d, em |-> r.em, dm |-> r.dm, asked |-> TRUE]
        /\ UNCHANGED <<storeVars, window>>

InitPattern == StoreInit /\ query \in {[NoQuery EXCEPT !.len = l] : l \in PatternLengths}

NextPattern == \E d \in QueryDates : Lookup(d)

SpecPattern == InitPattern /\ [][NextPattern]_vars

(***************************************************************************)
(* Time windows on their own: a monitoring type with any default hours and *)
(* Monday offsets, an assignment of it saved for any date.                 *)
(***************************************************************************)
\* MonitoringType.save(): the end hour of the other kind is replaced.
MonitoringType_save(mt) ==
    IF mt.code = "EM" /\ mt.default_end_hour = 17 THEN [mt EXCEPT !.default_end_hour = 7]
    ELSE IF mt.code = "DM" /\ mt.default_end_hour = 7 THEN [mt EXCEPT !.default_end_hour = 17]
    ELSE mt

StartHours == {0, 7, 17}

EndHours == {7, 17, 23}

Minutes == {0, 30}

\* The MonitoringType rows that can be stored: the two rows of
\* create_initial_data.py and every row saved with hours and offsets of the
\* sets above.
StoredTypes ==
    {MonitoringTypes.EM, MonitoringTypes.DM}
    \cup {MonitoringType_save([code |-> c, default_start_hour |-> sh, default_start_minute |-> sm,
                              default_end_hour |-> eh, default_end_minute |-> em,
                              monday_start_offset_hours |-> so,
                              monday_end_offset_hours |-> eo]) :
             c \in Codes, sh \in StartHours, sm \in Minutes, eh \in EndHours, em \in Minutes,
             so \in OffsetHours, eo \in OffsetHours}

\* MonitoringAssignment.save() of a row of type window.mt for date d with no
\* window set: the window is taken from the type, then the derived fields.
SaveWithWindow(d) ==
    LET w == get_time_window_for_date(window.mt, d)
        a == save(NewAssignment(d, window.mt.code, NONE, w.start, w.end, "SCHEDULED"))
    IN  /\ window' = [mt |-> window.mt, date |-> d, ok |-> w.ok,
                      start |-> w.start, end |-> w.end,
                      duration_hours |-> IF w.ok THEN a.duration_hours ELSE 0,
                      is_monday_assignment |-> a.is_monday_assignment,
                      is_extended_window |-> w.ok /\ a.is_extended_window,
                      asked |-> TRUE]
        /\ UNCHANGED <<storeVars, query>>

InitWindow ==
    /\ today = 0
    /\ types = Codes
    /\ active = Analysts
    /\ assignments = {}
    /\ swaps = <<>>
    /\ leaves = <<>>
    /\ last_generated = <<>>
    /\ last = NoCall
    /\ query = NoQuery
    /\ procs = [p \in Writers |-> Idle]
    /\ window \in {[NoWindow EXCEPT !.mt = mt] : mt \in StoredTypes}

NextWindow == \E d \in WindowDates : SaveWithWindow(d)

SpecWindow == InitWindow /\ [][NextWindow]_vars

(***************************************************************************)
(* Schedule generation on its own, under every configuration of the        *)
(* reference data: monitoring types missing, an analyst inactive.          *)
(***************************************************************************)
Configurations ==
    {[types |-> t, active |-> Analysts \ out] :
        t \in SUBSET Codes, out \in {{}} \cup {{a} : a \in Analysts}}

InitGenerate ==
    /\ StoreInitOther
    /\ \E c \in Configurations : types = c.types /\ active = c.active
    /\ query = NoQuery

NextGenerate == \E s \in Dates, e \in Dates : Generate(s, e)

SpecGenerate == InitGenerate /\ [][NextGenerate]_vars

(***************************************************************************)
(* Swaps on a generated schedule.                                          *)
(***************************************************************************)
Init == StoreInit /\ query = NoQuery

NextSwap ==
    \/ \E s \in Days, e \in Days : Generate(s, e)
    \/ Len(swaps) < MaxSwaps
       /\ \E id \in Ids(assignments), t \in Analysts : RequestSwap(id, t)
    \/ \E i \in 1..Len(swaps), a \in Analysts : ApproveSwap(i, a)
    \/ \E i \in 1..Len(swaps), a \in Analysts : RejectSwap(i, a)
    \/ AdvanceDay

SpecSwap == Init /\ [][NextSwap]_vars

(***************************************************************************)
(* Swaps answered by the analysts and, in bulk, by an administrator.       *)
(***************************************************************************)
Approvers == {"Ebisa"}

Selections == SUBSET (1..Len(swaps)) \ {{}}

NextSwapAdmin ==
    \/ \E s \in Days, e \in Days : Generate(s, e)
    \/ Len(swaps) < MaxSwaps
       /\ \E id \in Ids(assignments), t \in Analysts : RequestSwap(id, t)
    \/ \E i \in 1..Len(swaps), a \in Analysts : ApproveSwap(i, a)
    \/ \E i \in 1..Len(swaps), a \in Analysts : RejectSwap(i, a)
    \/ Len(swaps) < MaxSwaps
       /\ \E id \in Ids(assignments), t \in Analysts, st \in SwapStatuses : AdminAddSwap(id, t, st)
    \/ \E sel \in Selections, a \in Approvers : AdminApproveSelected(sel, a)
    \/ \E sel \in Selections : AdminRejectSelected(sel)

SpecSwapAdmin == Init /\ [][NextSwapAdmin]_vars

(***************************************************************************)
(* The assignment table under every operation that inserts into it by hand *)
(* or on approval of a swap.                                               *)
(***************************************************************************)
NextStore ==
    \/ \E s \in Days, e \in Days : Generate(s, e)
    \/ \E d \in Days, k \in Codes, a \in Analysts : CreateAssignment(d, k, a)
    \/ Len(swaps) < MaxStoreSwaps
       /\ \E id \in Ids(assignments), t \in Analysts : RequestSwap(id, t)
    \/ \E i \in 1..Len(swaps), a \in Analysts : ApproveSwap(i, a)

SpecStore == Init /\ [][NextStore]_vars

(***************************************************************************)
(* The assignment table edited by hand: rows of a generated schedule       *)
(* updated through the view of the administrators.                         *)
(***************************************************************************)
NextUpdate ==
    \/ \E s \in Days, e \in Days : Generate(s, e)
    \/ \E id \in Ids(assignments), d \in Days, k \in Codes, a \in Analysts :
           UpdateAssignment(id, d, k, a)

SpecUpdate == Init /\ [][NextUpdate]_vars

(***************************************************************************)
(* Leave on a generated schedule.                                          *)
(***************************************************************************)
NextLeave ==
    \/ \E s \in Days, e \in Days : Generate(s, e)
    \/ Len(leaves) < MaxLeaves
       /\ \E a \in Analysts, s \in Days, e \in Days, f \in BOOLEAN : RequestLeave(a, s, e, f)
    \/ \E i \in 1..Len(leaves), c \in Analysts \cup {NONE} :
           \E p \in Approvers : ApproveLeave(i, p, c)
    \/ \E sel \in SUBSET (1..Len(leaves)) \ {{}}, p \in Approvers :
           AdminApproveSelectedLeaves(sel, p)
    \/ AdvanceDay

SpecLeave == Init /\ [][NextLeave]_vars

(***************************************************************************)
(* The scheduling engine: generation, swaps and leave on one store.        *)
(***************************************************************************)
Next ==
    \/ \E s \in Days, e \in Days : Generate(s, e)
    \/ Len(swaps) < MaxSwaps /\ Len(swaps) + Len(leaves) < MaxRequests
       /\ \E id \in Ids(assignments), t \in Analysts : RequestSwap(id, t)
    \/ \E i \in 1..Len(swaps), a \in Analysts : ApproveSwap(i, a)
    \/ \E i \in 1..Len(swaps), a \in Analysts : RejectSwap(i, a)
    \/ Len(leaves) < MaxLeaves /\ Len(swaps) + Len(leaves) < MaxRequests
       /\ \E a \in Analysts, s \in Days, e \in Days, f \in BOOLEAN : RequestLeave(a, s, e, f)
    \/ \E i \in 1..Len(leaves), c \in Analysts \cup {NONE} :
           \E p \in Approvers : ApproveLeave(i, p, c)
    \/ AdvanceDay

Spec == Init /\ [][Next]_vars

(***************************************************************************)
(* Requests in progress together.  Each request runs in its own database   *)
(* connection; its queries see the committed rows and its own writes.  The *)
(* rows a generate run has inserted stay in procs[p].rows until the        *)
(* transaction.atomic() block of generate_schedule commits them or rolls   *)
(* them back.  An INSERT of a (date, monitoring_type) that another open    *)
(* transaction has inserted waits for that transaction to end; the wait    *)
(* can run into the lock timeout of the database.                          *)
(***************************************************************************)
Uncommitted(p) == UNION {procs[q].rows : q \in Writers \ {p}}

Visible(p) == assignments \cup procs[p].rows

\* generate_schedule(start_date, end_date) is called: the atomic block opens.
GenBegin(p, start_date, end_date) ==
    /\ procs[p].pc = "idle"
    /\ procs' = [procs EXCEPT ![p] = [Idle EXCEPT !.op = "generate", !.pc = "check",
                                                  !.cur = start_date, !.to = end_date,
                                                  !.arg = <<start_date, end_date>>]]
    /\ UNCHANGED <<today, types, active, assignments, swaps, leaves, last_generated, last,
                   query, window>>

\* The atomic block is left by an exception: its writes are undone.
GenRaise(p, err) ==
    /\ assignments' = transaction_atomic(assignments,
                          [ok |-> FALSE, store |-> assignments \cup procs[p].rows])
    /\ procs' = [procs EXCEPT ![p].pc = "failed", ![p].res = err, ![p].rows = {}]
    /\ UNCHANGED <<today, types, active, swaps, leaves, last_generated, last, query, window>>

\* The head of the while loop for current_date: the end of the range and the
\* commit, the skip of a populated date, the slots, analysts, types and
\* windows of an empty one.
GenCheck(p) ==
    LET w == procs[p]
        idx == get_assignments_for_date(GeneratorPattern, w.cur)
        em_w == get_time_window_for_date(MonitoringTypes.EM, w.cur)
        dm_w == get_time_window_for_date(MonitoringTypes.DM, w.cur)
    IN  /\ w.pc = "check"
        /\ IF w.cur > w.to
           THEN /\ assignments' = transaction_atomic(assignments,
                                      [ok |-> TRUE, store |-> assignments \cup w.rows])
                /\ last_generated' = <<today>>
                /\ procs' = [procs EXCEPT ![p].pc = "done", ![p].res = "ok", ![p].rows = {}]
                /\ UNCHANGED <<today, types, active, swaps, leaves, last, query, window>>
           ELSE IF existing_assignments(Visible(p), w.cur)
           THEN /\ procs' = [procs EXCEPT ![p].cur = w.cur + 1]
                /\ UNCHANGED <<today, types, active, assignments, swaps, leaves,
                               last_generated, last, query, window>>
           ELSE IF \/ analyst_for(idx.em) = <<>> \/ analyst_for(idx.dm) = <<>>
                   \/ "EM" \notin types \/ "DM" \notin types
                   \/ ~em_w.ok \/ ~dm_w.ok
           THEN GenRaise(p, "ValueError")
           ELSE /\ procs' = [procs EXCEPT ![p].pc = "em"]
                /\ UNCHANGED <<today, types, active, assignments, swaps, leaves,
                               last_generated, last, query, window>>

\* The row the run is about to insert for current_date.
GenRow(p) ==
    LET w == procs[p]
        kind == IF w.pc = "em" THEN "EM" ELSE "DM"
        idx == get_assignments_for_date(GeneratorPattern, w.cur)
        analyst == analyst_for(IF kind = "EM" THEN idx.em ELSE idx.dm)
        win == get_time_window_for_date(MonitoringTypes[kind], w.cur)
    IN  NewAssignment(w.cur, kind, analyst[1], win.start, win.end, "CONFIRMED")

\* MonitoringAssignment.objects.create(...) of the EM row, then of the DM
\* row.  The INSERT raises IntegrityError on a committed row of the key and
\* waits while another open transaction holds the key.
GenCreate(p) ==
    LET w == procs[p]
        c == create(Visible(p), GenRow(p))
    IN  /\ w.pc \in {"em", "dm"}
        /\ IF ~c.ok THEN GenRaise(p, "IntegrityError")
           ELSE /\ SameKey(Uncommitted(p), GenRow(p)) = {}
                /\ procs' = [procs EXCEPT ![p].rows = c.store \ assignments,
                                          ![p].n = w.n + 1,
                                          ![p].pc = IF w.pc = "em" THEN "dm" ELSE "check",
                                          ![p].cur = IF w.pc = "em" THEN w.cur ELSE w.cur + 1]
                /\ UNCHANGED <<today, types, active, assignments, swaps, leaves,
                               last_generated, last, query, window>>

\* The INSERT gives up waiting for another open transaction that has
\* written: for the one that holds the key, or, where the database admits
\* one writing transaction at a time, for any.
GenTimeout(p) ==
    /\ procs[p].pc \in {"em", "dm"}
    /\ Uncommitted(p) # {}
    /\ GenRaise(p, "OperationalError")

\* SwapRequestCreateView.post: form.is_valid() on the rows stored now.
SwapCheck(p, id, target) ==
    LET res == swap_validation(Row(assignments, id), target)
    IN  /\ procs[p].pc = "idle"
        /\ procs' = [procs EXCEPT ![p] = [Idle EXCEPT !.op = "requestSwap",
                                                      !.pc = IF res = "ok" THEN "save"
                                                             ELSE "failed",
                                                      !.res = res, !.arg = <<id, target>>]]
        /\ UNCHANGED <<today, types, active, assignments, swaps, leaves, last_generated,
                       last, query, window>>

\* SwapRequestCreateView.form_valid: the request is saved as validated.
SwapSave(p) ==
    LET w == procs[p]
    IN  /\ w.op = "requestSwap" /\ w.pc = "save"
        /\ swaps' = Append(swaps, [original_assignment |-> w.arg[1],
                                   requested_analyst |-> w.arg[2],
                                   requested_by |-> Row(assignments, w.arg[1]).analyst,
                                   status |-> "PENDING",
                                   reciprocal_assignment |-> <<>>,
                                   approved_by |-> NONE,
                                   responded |-> FALSE])
        /\ procs' = [procs EXCEPT ![p].pc = "done"]
        /\ UNCHANGED <<today, types, active, assignments, leaves, last_generated, last,
                       query, window>>

\* LeaveRequestCreateView.post: form.is_valid() on the rows stored now.
LeaveCheck(p, analyst, start_date, end_date, auto_adjust) ==
    LET res == leave_validation(analyst, start_date, end_date)
    IN  /\ procs[p].pc = "idle"
        /\ procs' = [procs EXCEPT ![p] = [Idle EXCEPT !.op = "requestLeave",
                                                      !.pc = IF res = "ok" THEN "save"
                                                             ELSE "failed",
                                                      !.res = res,
                                                      !.arg = <<analyst, start_date, end_date,
                                                                auto_adjust>>]]
        /\ UNCHANGED <<today, types, active, assignments, swaps, leaves, last_generated,
                       last, query, window>>

\* LeaveRequestCreateView.form_valid: the request is saved as validated, then
\* its affected assignments are recorded.
LeaveSave(p) ==
    LET w == procs[p]
        lv == [analyst |-> w.arg[1], start_date |-> w.arg[2], end_date |-> w.arg[3],
               status |-> "PENDING", covered_by |-> NONE, approved_by |-> NONE,
               auto_adjust_pattern |-> w.arg[4], affected_assignments |-> {}]
    IN  /\ w.op = "requestLeave" /\ w.pc = "save"
        /\ leaves' = Append(leaves, [lv EXCEPT !.affected_assignments =
                                                   assess_impact(assignments, lv)])
        /\ procs' = [procs EXCEPT ![p].pc = "done"]
        /\ UNCHANGED <<today, types, active, assignments, swaps, last_generated, last,
                       query, window>>

\* The response is sent: the connection takes the next request.
Return(p) ==
    /\ procs[p].pc \in {"done", "failed"}
    /\ procs' = [procs EXCEPT ![p] = Idle]
    /\ UNCHANGED <<today, types, active, assignments, swaps, leaves, last_generated, last,
                   query, window>>

Saving(op) == {p \in Writers : procs[p].op = op /\ procs[p].pc = "save"}

(***************************************************************************)
(* Generate runs in progress together, beside approvals of swaps and of    *)
(* leave on the same store.                                                *)
(***************************************************************************)
NextGenerateRace ==
    \/ \E p \in Writers, s \in Days, e \in Days : GenBegin(p, s, e)
    \/ \E p \in Writers : GenCheck(p)
    \/ \E p \in Writers : GenCreate(p)
    \/ \E p \in Writers : GenTimeout(p)
    \/ \E p \in Writers : Return(p)
    \/ Len(swaps) + Len(leaves) < MaxRaceRequests
       /\ \E id \in Ids(assignments), t \in Analysts : RequestSwap(id, t)
    \/ \E i \in 1..Len(swaps), a \in Approvers : ApproveSwap(i, a)
    \/ Len(swaps) + Len(leaves) < MaxRaceRequests
       /\ \E a \in Approvers, s \in Days, e \in Days : RequestLeave(a, s, e, FALSE)
    \/ \E i \in 1..Len(leaves), c \in Analysts : \E a \in Approvers : ApproveLeave(i, a, c)

SpecGenerateRace == Init /\ [][NextGenerateRace]_vars

(***************************************************************************)
(* Swap requests in progress together on a generated schedule.             *)
(***************************************************************************)
NextSwapRace ==
    \/ \E s \in Days, e \in Days : Generate(s, e)
    \/ Len(swaps) + Cardinality(Saving("requestSwap")) < MaxSwaps
       /\ \E p \in Writers, id \in Ids(assignments), t \in Analysts : SwapCheck(p, id, t)
    \/ \E p \in Writers : SwapSave(p)
    \/ \E p \in Writers : Return(p)

SpecSwapRace == Init /\ [][NextSwapRace]_vars

(***************************************************************************)
(* Leave requests in progress together on a generated schedule.            *)
(***************************************************************************)
NextLeaveRace ==
    \/ \E s \in Days, e \in Days : Generate(s, e)
    \/ Len(leaves) + Cardinality(Saving("requestLeave")) < MaxRaceLeaves
       /\ \E p \in Writers, a \in Analysts, s \in Days, e \in Days :
              LeaveCheck(p, a, s, e, FALSE)
    \/ \E p \in Writers : LeaveSave(p)
    \/ \E p \in Writers : Return(p)

SpecLeaveRace == Init /\ [][NextLeaveRace]_vars

(***************************************************************************)
(* Properties of the rotation pattern (SpecPattern).                       *)
(***************************************************************************)
TrueMod(k, n) == ((k % n) + n) % n

\* C6: for every date, before, on or after the reference date and inside or
\* outside the stored table, the DM slot is (EM slot + 3) mod 4, so the two
\* slots of a date differ.
C6_DmSlotIsEmSlotPlusOffset ==
    /\ query.dm = (query.em + DmOffset) % RotationSlots
    /\ query.em # query.dm

C6_Witness ==
    /\ query.asked
    /\ query.len = PatternDays
    /\ query.date >= PatternDays
    /\ query.dm = (query.em + DmOffset) % RotationSlots

\* C7: the rotation has period 4: the lookup of date d returns the slots the
\* lookup of d + 4 returns, for every d, also when d is before the
\* reference date and d + 4 on or after it.
C7_PeriodFour ==
    query.asked =>
        [em |-> query.em, dm |-> query.dm]
            = get_assignments_for_date(PatternOf(query.len), query.date + RotationSlots)

\* C8: for a date k < 0 days from the reference date the EM slot is the
\* true modulo ((k mod 4) + 4) mod 4; the day before the reference date
\* gets EM slot 3.
C8_BackwardSlotIsTrueModulo ==
    (query.asked /\ query.date < 0) => query.em = TrueMod(query.date, RotationSlots)

(***************************************************************************)
(* Properties of schedule generation.                                      *)
(***************************************************************************)
Range(from, to) == {d \in Dates : from <= d /\ d <= to}

\* The dates of [from, to] that no assignment is stored for.
Unpopulated(store, from, to) == {d \in Range(from, to) : OnDate(store, d) = {}}

SlotsResolved(d) ==
    LET idx == get_assignments_for_date(GeneratorPattern, d)
    IN  analyst_for(idx.em) # <<>> /\ analyst_for(idx.dm) # <<>>

\* What generate writes for a date: an EM row and a DM row, CONFIRMED, for
\* the analysts of the date's two slots, with the windows of the two kinds.
GeneratedFor(d) ==
    LET idx == get_assignments_for_date(GeneratorPattern, d)
        em_w == get_time_window_for_date(MonitoringTypes.EM, d)
        dm_w == get_time_window_for_date(MonitoringTypes.DM, d)
    IN  {[date |-> d, kind |-> "EM", analyst |-> analyst_for(idx.em)[1], status |-> "CONFIRMED",
          window_start |-> em_w.start, window_end |-> em_w.end],
         [date |-> d, kind |-> "DM", analyst |-> analyst_for(idx.dm)[1], status |-> "CONFIRMED",
          window_start |-> dm_w.start, window_end |-> dm_w.end]}

Essence(a) ==
    [date |-> a.date, kind |-> a.kind, analyst |-> a.analyst, status |-> a.status,
     window_start |-> a.window_start, window_end |-> a.window_end]

\* C3: a generate(start, end) that directly follows a successful
\* generate(start, end) returns 0 and leaves the assignments as they are.
C3_GenerateIdempotent ==
    [][(/\ last.op = "generate" /\ last.res = "ok"
        /\ last'.op = "generate" /\ last'.from = last.from /\ last'.to = last.to)
       => (last'.res = "ok" /\ last'.n = 0 /\ assignments' = assignments)]_vars

C3_Witness ==
    /\ last.op = "generate" /\ last.res = "ok" /\ last.n = 0
    /\ last.from < last.to
    /\ \A d \in Range(last.from, last.to) : Cardinality(OnDate(assignments, d)) = 2

\* C4: with the reference data complete, generate(start, end) succeeds; a
\* date of the range that had any assignment (either kind, any status) is
\* left as it was; every other date of the range gets exactly an EM row and
\* a DM row, CONFIRMED, for the active analysts of the date's slots, with
\* the windows of the kinds; dates outside the range are untouched; the
\* count returned is twice the number of dates that had no assignment.
C4_GenerateFillsEmptyDates ==
    [][last'.op = "generate"
       => /\ last'.res = "ok"
          /\ \A d \in Dates :
                IF d \in Unpopulated(assignments, last'.from, last'.to)
                THEN /\ Cardinality(OnDate(assignments', d)) = 2
                     /\ {Essence(a) : a \in OnDate(assignments', d)} = GeneratedFor(d)
                ELSE OnDate(assignments', d) = OnDate(assignments, d)
          /\ last'.n = 2 * Cardinality(Unpopulated(assignments, last'.from, last'.to))]_vars

\* A run that skipped a date holding one row made by hand and filled another.
C4_Witness ==
    /\ last.op = "generate" /\ last.res = "ok" /\ last.n = 2
    /\ last.from < last.to
    /\ \E d \in Range(last.from, last.to) :
          /\ Cardinality(OnDate(assignments, d)) = 1
          /\ \A a \in OnDate(assignments, d) : a.status = "SCHEDULED"

\* C5: when a date of the range that has no assignment yet cannot be
\* generated, because the EM or the DM monitoring type is missing or
\* because one of the date's slots has no active analyst, generate fails
\* with the configuration error; the failed run leaves every assignment as
\* it was, also on the dates it processed before the failing one, and does
\* not record last_generated.
C5_FailedGenerateWritesNothing ==
    [][last'.op = "generate"
       => LET needed == Unpopulated(assignments, last'.from, last'.to)
              broken == \E d \in needed : types # Codes \/ ~SlotsResolved(d)
          IN  /\ broken => /\ last'.res = "ValueError"
                           /\ assignments' = assignments
                           /\ last_generated' = last_generated
              /\ last'.res # "ok" => /\ assignments' = assignments
                                     /\ last_generated' = last_generated]_vars

\* A run that failed on a later date after a date it could generate.
C5_Witness ==
    /\ last.op = "generate" /\ last.res = "ValueError"
    /\ types = Codes
    /\ last.from < last.to
    /\ SlotsResolved(last.from) /\ OnDate(assignments, last.from) = {}
    /\ last_generated = <<>>

(***************************************************************************)
(* Properties of the swap engine (SpecSwap).                               *)
(***************************************************************************)
Holds(store, analyst, d) == {a \in OnDate(store, d) : a.analyst = analyst}

\* C9: an approval, by the analyst the request names, of a swap request
\* that is not PENDING fails with the state error and changes neither the
\* assignments nor the request.
C9_ApproveNonPendingFails ==
    [][(/\ last'.op = "approveSwap" /\ last'.res # "Forbidden"
        /\ swaps[last'.n].status # "PENDING")
       => (last'.res = "NotPending" /\ assignments' = assignments /\ swaps' = swaps)]_vars

C9_Witness ==
    /\ last.op = "approveSwap" /\ last.res = "NotPending"
    /\ swaps[last.n].status = "REJECTED"
    /\ assignments # {}

\* C10: an approval, by the analyst the request names, of a PENDING swap
\* request succeeds: afterwards the request is APPROVED with its approver
\* and response time, its reciprocal assignment is a CONFIRMED row of the
\* target analyst with the date, kind and window of the original row, the
\* original row belongs to the target analyst, and the requesting analyst
\* holds nothing on that date.
C10_ApprovePendingSwaps ==
    (last.op = "approveSwap" /\ last.res \notin {"Forbidden", "NotPending"})
    => LET req == swaps[last.n]
           orig == Row(assignments, req.original_assignment)
       IN  /\ last.res = "ok"
           /\ req.status = "APPROVED"
           /\ req.approved_by = req.requested_analyst
           /\ req.responded
           /\ req.reciprocal_assignment \in Ids(assignments)
           /\ LET rec == Row(assignments, req.reciprocal_assignment)
              IN  /\ rec.analyst = req.requested_analyst
                  /\ rec.status = "CONFIRMED"
                  /\ rec.date = orig.date /\ rec.kind = orig.kind
                  /\ rec.window_start = orig.window_start
                  /\ rec.window_end = orig.window_end
           /\ orig.analyst = req.requested_analyst
           /\ Holds(assignments, req.requested_by, orig.date) = {}

(***************************************************************************)
(* Properties of the assignment table.                                     *)
(***************************************************************************)
\* C1: no analyst holds assignments of both kinds, neither of them
\* CANCELLED, on one date (Spec: generation, swaps and leave together).
C1_NoAnalystHoldsBothKinds ==
    \A a \in assignments, b \in assignments :
        (/\ a.date = b.date /\ a.kind # b.kind
         /\ a.status # "CANCELLED" /\ b.status # "CANCELLED")
        => a.analyst # b.analyst

\* A leave approved with a coverage analyst who holds the other kind on a
\* date of an affected assignment, beside a swap request that was answered.
C1_Witness ==
    /\ last.op = "approveLeave"
    /\ \E i \in 1..Len(leaves) :
          /\ leaves[i].status = "APPROVED"
          /\ leaves[i].covered_by # NONE
          /\ \E id \in leaves[i].affected_assignments :
                Holds(assignments, leaves[i].covered_by, id[1]) # {}
    /\ \E i \in 1..Len(swaps) : swaps[i].status # "PENDING"

UniquePerDateKind(store) ==
    \A a \in store, b \in store : (a.date = b.date /\ a.kind = b.kind) => a = b

KeyPresent(store, d, kind) == \E a \in store : a.date = d /\ a.kind = kind

\* C2: the table never holds two rows of one (date, kind); a creation whose
\* (date, kind) is present, by hand through the form or on approval of a
\* swap through the table's unique constraint, is rejected with the
\* conflict error and leaves the table, with the first row, as it was.
C2_OneAssignmentPerDateAndKind ==
    [][/\ UniquePerDateKind(assignments')
       /\ (last'.op = "createAssignment" /\ KeyPresent(assignments, last'.from, last'.kind))
          => (last'.res = "Conflict" /\ assignments' = assignments)
       /\ (last'.op = "approveSwap" /\ last'.res \notin {"Forbidden", "NotPending"})
          => (last'.res = "IntegrityError" /\ assignments' = assignments)]_vars

C2_Witness ==
    /\ last.op = "approveSwap" /\ last.res = "IntegrityError"
    /\ \E a \in assignments : a.status = "SCHEDULED"
    /\ UniquePerDateKind(assignments)

(***************************************************************************)
(* Properties of the time windows (SpecWindow).                            *)
(***************************************************************************)
DefaultStart(mt, d) == combine(d - 1, mt.default_start_hour, mt.default_start_minute)

DefaultEnd(mt, d) == combine(d, mt.default_end_hour, mt.default_end_minute)

C19_DefaultWindow ==
    (/\ window.asked
     /\ \/ weekday(window.date) # 0
        \/ /\ window.mt.monday_start_offset_hours = 0
           /\ window.mt.monday_end_offset_hours = 0)
    => /\ window.ok
       /\ window.start = DefaultStart(window.mt, window.date)
       /\ window.end = DefaultEnd(window.mt, window.date)
       /\ window.mt = MonitoringTypes.EM => window.duration_hours = 14 * 100
       /\ window.mt = MonitoringTypes.DM => window.duration_hours = 24 * 100

C19_Witness ==
    /\ window.asked /\ window.ok
    /\ weekday(window.date) # 0
    /\ window.mt = MonitoringTypes.DM
    /\ window.duration_hours = 24 * 100
    /\ window.start = DefaultStart(window.mt, window.date)

\* C20: on a Monday, whatever the two offsets (both >= 0), the window exists,
\* starts no later than the previous day at the default start time, ends no
\* earlier than the Monday at the default end time, starts strictly before
\* it ends and lasts at least as long as the default window.
C20_MondayOffsetsOnlyLengthen ==
    (/\ window.asked /\ weekday(window.date) = 0
     /\ window.mt.monday_start_offset_hours >= 0
     /\ window.mt.monday_end_offset_hours >= 0)
    => /\ window.ok
       /\ window.start <= DefaultStart(window.mt, window.date)
       /\ window.end >= DefaultEnd(window.mt, window.date)
       /\ window.start < window.end
       /\ window.end - window.start
              >= DefaultEnd(window.mt, window.date) - DefaultStart(window.mt, window.date)

(***************************************************************************)
(* Properties of the swap requests (SpecSwapAdmin, SpecSwap).              *)
(***************************************************************************)
\* C11: the status of a swap request that is not PENDING never changes,
\* whether it is approved or rejected through the views or selected in the
\* bulk actions of the admin; a reject through the view of a request that
\* is not PENDING fails, and a request becomes REJECTED only from PENDING.
C11_StatusLeavesOnlyPending ==
    [][/\ \A i \in 1..Len(swaps) :
             /\ swaps[i].status # "PENDING" => swaps'[i] = swaps[i]
             /\ swaps'[i].status # swaps[i].status => swaps[i].status = "PENDING"
       /\ (/\ last'.op = "rejectSwap" /\ last'.res # "Forbidden"
           /\ swaps[last'.req].status # "PENDING")
          => (last'.res = "NotPending" /\ swaps' = swaps)]_vars

\* A request rejected through the view and an expired request were
\* selected in the admin's bulk reject.
C11_Witness ==
    /\ last.op = "adminRejectSwaps"
    /\ Len(swaps) = 2
    /\ \E i \in 1..Len(swaps) : swaps[i].status = "REJECTED" /\ swaps[i].responded
    /\ \E i \in 1..Len(swaps) : swaps[i].status = "EXPIRED"

\* C12: a swap request is created only for an assignment that is not in
\* the past and a target analyst who has no assignment of either kind on
\* its date, whichever kind the assignment has; in every other case the
\* request is rejected, by the view and by ShiftSwapRequest.clean() alone,
\* no request is created and no assignment changes.
C12_RequestSwapRejected ==
    [][/\ \A a \in assignments, t \in Analysts :
             (\/ a.date < today
              \/ Holds(assignments, t, a.date) # {}
              \/ \E b \in OnDate(assignments, a.date) : b.kind # a.kind /\ b.analyst = t)
             => /\ ShiftSwapRequest_clean(a, t) # "ok"
                /\ swap_validation(a, t) # "ok"
       /\ last'.op = "requestSwap"
          => /\ assignments' = assignments
             /\ last'.res # "ok" => swaps' = swaps
             /\ swaps' # swaps
                => LET r == swaps'[Len(swaps')]
                       a == Row(assignments, r.original_assignment)
                   IN  /\ a.date >= today
                       /\ Holds(assignments, r.requested_analyst, a.date) = {}]_vars

\* A request for a past row was rejected while the table
\* held a DM row of a coming date beside its EM row.
C12_Witness ==
    /\ last.op = "requestSwap" /\ last.res = "PastDate"
    /\ swaps = <<>>
    /\ \E a \in assignments : a.date < today
    /\ \E a \in assignments, b \in assignments :
          a.date = b.date /\ a.date >= today /\ a.kind = "DM" /\ b.kind = "EM"

(***************************************************************************)
(* Properties of the leave requests (SpecLeave).                           *)
(***************************************************************************)
\* The step is a call of the operation op (the passing of a day leaves the
\* record of the last call as it is).
Calls(op) == last'.op = op /\ today' = today

\* The rows that cover row a for an analyst: same date, kind and window,
\* CONFIRMED.
Covering(store, a, analyst) ==
    {b \in store : /\ b.date = a.date /\ b.kind = a.kind /\ b.analyst = analyst
                   /\ b.status = "CONFIRMED"
                   /\ b.window_start = a.window_start /\ b.window_end = a.window_end}

\* The assignments of an analyst in [from, to] that are SCHEDULED or CONFIRMED.
AffectedBy(store, analyst, from, to) ==
    {Id(a) : a \in {b \in store : /\ b.analyst = analyst /\ from <= b.date /\ b.date <= to
                                  /\ b.status \in {"SCHEDULED", "CONFIRMED"}}}

\* C13: an approval of a PENDING leave request with a coverage analyst
\* succeeds, whatever the auto-adjust flag of the request: the request is
\* APPROVED, every affected assignment is CANCELLED and has exactly one
\* covering CONFIRMED row of the coverage analyst with its date, kind and
\* window.
C13_ApproveLeaveArrangesCoverage ==
    [][(/\ Calls("approveLeave") /\ last'.res # "NotPending"
        /\ leaves'[last'.req].covered_by # NONE)
       => LET lv == leaves'[last'.req]
          IN  /\ last'.res = "ok"
              /\ lv.status = "APPROVED"
              /\ \A id \in AffectedBy(assignments, lv.analyst, lv.start_date, lv.end_date) :
                    /\ Row(assignments', id).status = "CANCELLED"
                    /\ Cardinality(Covering(assignments', Row(assignments, id),
                                            lv.covered_by)) = 1]_vars

\* C14: a leave request leaves PENDING only to APPROVED, REJECTED or
\* CANCELLED and is not changed afterwards, by the view or by the bulk
\* approval of the admin; an approval of a request that is not PENDING
\* fails with the state error and changes neither the requests nor the
\* assignments.
C14_ApproveLeaveOnlyPending ==
    [][/\ \A i \in 1..Len(leaves) :
             /\ leaves[i].status # "PENDING" => leaves'[i] = leaves[i]
             /\ leaves'[i].status \in {leaves[i].status, "APPROVED", "REJECTED", "CANCELLED"}
       /\ (Calls("approveLeave") /\ leaves[last'.req].status # "PENDING")
          => /\ last'.res = "NotPending"
             /\ assignments' = assignments
             /\ leaves' = leaves]_vars

\* An approved request with affected assignments was approved again.
C14_Witness ==
    /\ last.op = "approveLeave" /\ last.res = "NotPending"
    /\ leaves[last.req].status = "APPROVED"
    /\ leaves[last.req].affected_assignments # {}

\* C15: assess_impact replaces the affected set of a request by exactly the
\* SCHEDULED or CONFIRMED assignments of its analyst with a date in
\* [start, end], both ends included, and returns their number; a second
\* call on the same store gives the same set; an approval computes the set
\* from the store as it is when the request is approved.
C15_AssessImpactExact ==
    [][/\ (Calls("requestLeave") /\ last'.res = "ok")
          => LET lv == leaves'[last'.req]
             IN  /\ lv.affected_assignments
                       = AffectedBy(assignments, lv.analyst, lv.start_date, lv.end_date)
                 /\ last'.n = Cardinality(lv.affected_assignments)
                 /\ assess_impact(assignments', lv) = lv.affected_assignments
       /\ (Calls("approveLeave") /\ last'.res # "NotPending")
          => LET lv == leaves'[last'.req]
             IN  lv.affected_assignments
                    = AffectedBy(assignments, lv.analyst, lv.start_date, lv.end_date)]_vars

\* A leave over two dates was approved with an assignment affected on each.
C15_Witness ==
    /\ last.op = "approveLeave" /\ last.res = "ok"
    /\ leaves[last.req].start_date < leaves[last.req].end_date
    /\ \E x \in leaves[last.req].affected_assignments,
          y \in leaves[last.req].affected_assignments :
            x[1] = leaves[last.req].start_date /\ y[1] = leaves[last.req].end_date

\* C16: a leave request with end < start or start before today is rejected
\* with the validation error of the range and nothing is written; a request
\* with start = end = today is accepted unless the analyst has a pending or
\* approved leave on that day.
C16_RequestLeaveRange ==
    [][/\ \A a \in Analysts, s \in Days, e \in Days :
             (e < s \/ s < today) => leave_validation(a, s, e) \in {"InvalidRange", "PastDate"}
       /\ \A a \in Analysts :
             (\A i \in 1..Len(leaves) :
                 ~(/\ leaves[i].analyst = a
                   /\ leaves[i].start_date <= today /\ leaves[i].end_date >= today
                   /\ leaves[i].status \in {"PENDING", "APPROVED"}))
             => leave_validation(a, today, today) = "ok"
       /\ Calls("requestLeave")
          => /\ assignments' = assignments
             /\ last'.res # "ok" => leaves' = leaves
             /\ last'.res = "ok"
                => /\ Len(leaves') = Len(leaves) + 1
                   /\ leaves'[last'.req].status = "PENDING"
                   /\ leaves'[last'.req].start_date >= today
                   /\ leaves'[last'.req].end_date >= leaves'[last'.req].start_date]_vars

\* A request for today alone was accepted after a day had passed.
C16_Witness ==
    /\ last.op = "requestLeave" /\ last.res = "ok"
    /\ today > 0
    /\ leaves[last.req].start_date = today /\ leaves[last.req].end_date = today
    /\ leaves[last.req].status = "PENDING"

\* C17: an approval of a leave request that fails while the coverage is
\* arranged leaves the request PENDING with no approver and no coverage
\* analyst, no covering row and no affected assignment CANCELLED.
C17_ApproveLeaveFailsAtomically ==
    (last.op = "approveLeave" /\ last.res = "IntegrityError")
    => LET lv == leaves[last.req]
       IN  /\ lv.status = "PENDING"
           /\ lv.approved_by = NONE
           /\ lv.covered_by = NONE
           /\ \A a \in assignments : a.status # "CANCELLED"

(***************************************************************************)
(* Further properties of the time windows (SpecWindow, SpecUpdate,         *)
(* SpecGenerate).                                                          *)
(***************************************************************************)
\* C21: the window calculation has no error outcome: for every type with
\* default hours in 0..23 and offsets >= 0 it returns a start and an end for
\* every date.
C21_WindowAlwaysDefined ==
    window.asked => window.ok

Threshold(kind) == IF kind = "EM" THEN EmExtendedHours ELSE DmExtendedHours

\* C22: a stored assignment has is_extended_window exactly when its
\* duration exceeds the threshold of its kind (14 hours for EM, 24 for DM),
\* on every weekday, also after an update that shortens its window.
C22_ExtendedIffOverThreshold ==
    \A a \in assignments :
        a.is_extended_window <=> a.duration_hours > Threshold(a.kind) * 100

\* The hours (counted from day 0, 00:00) from the first date of the model
\* at 00:00 up to the last date at 07:00.
PeriodHours == ((0 - MaxBack) * HoursPerDay)..(MaxDay * HoursPerDay + 6)

Covers(a, hour) ==
    /\ a.window_start <= hour * MinutesPerHour
    /\ hour * MinutesPerHour < a.window_end

\* C23: when the schedule is generated for every date of the period, every
\* hour of the period lies in the window of exactly one assignment of each
\* kind.
C23_EveryHourCoveredOnce ==
    (/\ types = Codes /\ active = Analysts
     /\ \A d \in Dates : {Essence(a) : a \in OnDate(assignments, d)} = GeneratedFor(d))
    => \A kind \in Codes, hour \in PeriodHours :
          Cardinality({a \in assignments : a.kind = kind /\ Covers(a, hour)}) = 1

\* C26: with the rows of the initial data the EM window of a Monday starts
\* on the Saturday at 17:00 and lasts 38 hours, and the DM window of a
\* Monday starts on the Friday at 17:00 and lasts 72 hours.
C26_InitialDataMondayWindows ==
    (window.asked /\ weekday(window.date) = 0)
    => /\ window.mt = MonitoringTypes.EM
          => /\ window.start = combine(window.date - 2, 17, 0)
             /\ window.duration_hours = 38 * 100
       /\ window.mt = MonitoringTypes.DM
          => /\ window.start = combine(window.date - 3, 17, 0)
             /\ window.duration_hours = 72 * 100

(***************************************************************************)
(* Further properties of the rotation pattern (SpecPattern).               *)
(***************************************************************************)
\* C27: for a date on or after the reference date the lookup returns the
\* value of the formula, EM slot = days mod 4 and DM slot = (EM slot + 3)
\* mod 4, inside the stored table (365 or 150 entries) and beyond its end.
C27_TableAgreesWithFormula ==
    (query.asked /\ query.date >= 0)
    => /\ query.em = query.date % RotationSlots
       /\ query.dm = ((query.date % RotationSlots) + DmOffset) % RotationSlots

\* The first date beyond the 150 entries of the initial data.
C27_Witness ==
    /\ query.asked
    /\ query.len = InitialPatternDays
    /\ query.date = InitialPatternDays
    /\ query.em = InitialPatternDays % RotationSlots

(***************************************************************************)
(* Further properties of the swap and leave requests.                      *)
(***************************************************************************)
\* C28: no swap request is created whose target is the analyst who holds
\* the original assignment: validation, by the view and by
\* ShiftSwapRequest.clean() alone, rejects that analyst in every state.
C28_TargetIsNotTheHolder ==
    [][/\ \A a \in assignments :
             /\ ShiftSwapRequest_clean(a, a.analyst) # "ok"
             /\ swap_validation(a, a.analyst) # "ok"
       /\ Len(swaps') > Len(swaps)
          => LET r == swaps'[Len(swaps')]
             IN  r.requested_analyst # Row(assignments, r.original_assignment).analyst]_vars

\* A request entered in the admin was rejected because its target had an
\* assignment on the date, beside a pending request made through the view.
C28_Witness ==
    /\ last.op = "adminAddSwap" /\ last.res = "AlreadyAssigned"
    /\ \E i \in 1..Len(swaps) :
          /\ swaps[i].status = "PENDING"
          /\ swaps[i].requested_analyst
                # Row(assignments, swaps[i].original_assignment).analyst

\* C29: once a leave request is APPROVED with a coverage analyst, the
\* analyst on leave holds no SCHEDULED or CONFIRMED assignment with a date
\* in [start, end], whoever the coverage analyst is.
C29_NoDutyDuringCoveredLeave ==
    \A i \in 1..Len(leaves) :
        (leaves[i].status = "APPROVED" /\ leaves[i].covered_by # NONE)
        => AffectedBy(assignments, leaves[i].analyst,
                      leaves[i].start_date, leaves[i].end_date) = {}

(***************************************************************************)
(* C24: under any interleaving of two operations that create an assignment *)
(* for the same (date, kind), at most one creation succeeds and the other  *)
(* fails without overwriting the stored record, and a generate run that    *)
(* loses leaves none of its own assignments in the store.  In every step:  *)
(* the store has one row per (date, kind) and keeps every row as it was;   *)
(* a key inserted by an open run is neither stored nor inserted by another *)
(* open run; a run that fails leaves the store as it was and drops every   *)
(* row it had inserted; the store grows only by all the rows of a run that *)
(* commits.                                                                *)
(***************************************************************************)
C24_ConcurrentCreatesSerialized ==
    [][/\ UniquePerDateKind(assignments')
       /\ assignments \subseteq assignments'
       /\ \A p \in Writers : \A a \in procs'[p].rows :
              /\ SameKey(assignments', a) = {}
              /\ \A q \in Writers \ {p} : SameKey(procs'[q].rows, a) = {}
       /\ \A p \in Writers :
              /\ (procs'[p].pc = "failed" /\ procs[p].pc # "failed")
                     => assignments' = assignments /\ procs'[p].rows = {}
              /\ (procs'[p].pc = "done" /\ procs[p].pc # "done")
                     => assignments' = assignments \cup procs[p].rows
       /\ assignments' # assignments
              => \E p \in Writers : procs[p].pc = "check" /\ procs'[p].pc = "done"]_vars

\* Two runs over overlapping ranges have ended: the first had written rows
\* and failed on a key the second committed, and none of the first run's
\* rows is stored.
C24_Witness ==
    /\ procs[1].pc = "failed" /\ procs[1].res = "IntegrityError" /\ procs[1].n > 0
    /\ procs[2].pc = "done" /\ procs[2].n > 0
    /\ OnDate(assignments, procs[1].arg[1]) = {}
    /\ OnDate(assignments, procs[2].arg[1]) # {}

C30_NoOverlappingLeave ==
    \A i \in 1..Len(leaves), j \in 1..Len(leaves) :
        (/\ i # j
         /\ leaves[i].analyst = leaves[j].analyst
         /\ leaves[i].status \in {"PENDING", "APPROVED"}
         /\ leaves[j].status \in {"PENDING", "APPROVED"})
            => \/ leaves[i].end_date < leaves[j].start_date
               \/ leaves[j].end_date < leaves[i].start_date

====
